---- MODULE Spec2Model ----
(***************************************************************************)
(* Model of the user authentication service                                *)
(* (0x03-user_authentication_service): the DB class of db.py (UserStore)   *)
(* and the Auth class of auth.py (AuthService) over the users table of     *)
(* 0-user.py.                                                              *)
(*                                                                         *)
(* Every method is a pure operator from the table and its arguments to a   *)
(* result and the table it leaves behind; the actions apply one method     *)
(* call each and record the call, its result and the table before it.      *)
(*                                                                         *)
(* bcrypt is taken at its contract: checkpw(p, hashpw(q, salt)) holds      *)
(* exactly when p = q (passwords within bcrypt's input limit).  uuid4 is   *)
(* taken as a source of values that never repeat.                          *)
(***************************************************************************)
EXTENDS Integers, FiniteSets, Sequences, TLC

----------------------------------------------------------------------------
(* Bounds and input domains *)

\* number of uuid4 values drawn in one behaviour
MaxUuid == 2

\* number of rows direct add_user calls may create (store-level specification)
MaxUsers == 1

\* Python's None / SQL NULL
None == "None"

Emails == {"a@x.com", "b@x.com"}

Passwords == {"", "pw1"}

\* the outcomes of bcrypt.gensalt()
Salts == {"salt1", "salt2"}

\* the values uuid4 yields, in the order they are drawn
UuidPool == <<"u1", "u2", "u3", "u4", "u5", "u6">>

\* a keyword that is not a column of the users table
Bogus == "bogus"

\* number of keywords one direct find_user_by or update_user call carries
MaxKwargs == 2

----------------------------------------------------------------------------
(* 0-user.py: the users table *)

\* User.__table__.columns.keys()
Columns == {"id", "email", "hashed_password", "session_id", "reset_token"}

\* User(email=..., hashed_password=...) as inserted: the nullable columns
\* default to NULL
User(id, email, hashed_password) ==
    [id |-> id, email |-> email, hashed_password |-> hashed_password,
     session_id |-> None, reset_token |-> None]

----------------------------------------------------------------------------
(* results of a call: a returned value or a raised exception *)

Return(v) == [exc |-> "", msg |-> "", none |-> FALSE, val |-> v]

\* return None
ReturnNone == [exc |-> "", msg |-> "", none |-> TRUE, val |-> None]

Raise(cls, m) == [exc |-> cls, msg |-> m, none |-> FALSE, val |-> None]

----------------------------------------------------------------------------
(* auth.py: module-level helpers *)

\* bcrypt.hashpw(password.encode(), salt): the salt is kept in the hash
hashpw(password, salt) == <<salt, password>>

\* checkpw re-hashing with a salt of its own instead of the stored one
checkpw_FixedSalt(password, hashed) == hashpw(password, "salt1") = hashed

\* bcrypt.checkpw(password, hashed): re-hash with the salt of the stored hash
checkpw(password, hashed) == hashpw(password, hashed[1]) = hashed

\* _hash_password(password), with the salt gensalt() drew
hash_password(password, salt) == hashpw(password, salt)

\* _generate_uuid that yields the same value at every call
generate_uuid_Constant(n) == UuidPool[1]

\* _generate_uuid(): the n-th value drawn from uuid4
generate_uuid(n) == UuidPool[n]

----------------------------------------------------------------------------
(* db.py: DB *)

MaxId(db) == IF db = {} THEN 0
             ELSE CHOOSE m \in {u.id : u \in db} : \A u \in db : u.id <= m

\* DB.add_user: INTEGER PRIMARY KEY gives the new row the largest id plus one
add_user(db, email, hashed_password) ==
    LET user == User(MaxId(db) + 1, email, hashed_password)
    IN  [ret |-> Return(user), db |-> db \cup {user}]

\* find_user_by that queries on the columns it knows before it validates
\* the keywords
find_user_by_QueryFirst(db, kwargs) ==
    IF DOMAIN kwargs = {}
    THEN Raise("InvalidRequestError", "No search criteria specified")
    ELSE LET matches == {u \in db : \A key \in DOMAIN kwargs \cap Columns :
                                       u[key] = kwargs[key]}
         IN  IF matches = {}
             THEN Raise("NoResultFound", "No user found that matches the given criteria")
             ELSE IF \E key \in DOMAIN kwargs : key \notin Columns
             THEN Raise("InvalidRequestError", "is not a valid search criterion")
             ELSE Return(CHOOSE u \in matches : \A v \in matches : u.id <= v.id)

\* DB.find_user_by(**kwargs); kwargs is a function from keywords to values
find_user_by(db, kwargs) ==
    IF DOMAIN kwargs = {}
    THEN Raise("InvalidRequestError", "No search criteria specified")
    ELSE IF \E key \in DOMAIN kwargs : key \notin Columns
    THEN Raise("InvalidRequestError", "is not a valid search criterion")
    ELSE LET matches == {u \in db : \A key \in DOMAIN kwargs : u[key] = kwargs[key]}
         IN  IF matches = {}
             THEN Raise("NoResultFound", "No user found that matches the given criteria")
             ELSE Return(CHOOSE u \in matches : \A v \in matches : u.id <= v.id)

\* update_user that checks each keyword as it assigns it: the recognized
\* keywords are assigned and committed before the unknown one is reported
update_user_CheckWhileAssigning(db, user_id, kwargs) ==
    LET found == find_user_by(db, [k \in {"id"} |-> user_id])
    IN  IF found.exc # ""
        THEN [ret |-> found, db |-> db]
        ELSE LET user == found.val
                 updated == [c \in Columns |->
                                IF c \in DOMAIN kwargs THEN kwargs[c] ELSE user[c]]
             IN  IF \E o \in db \ {user} : o.id = updated.id
                 THEN [ret |-> Raise("IntegrityError", "UNIQUE constraint failed: users.id"),
                       db |-> db]
                 ELSE IF \E key \in DOMAIN kwargs : key \notin Columns
                 THEN [ret |-> Raise("ValueError", "is not a valid attribute name"),
                       db |-> (db \ {user}) \cup {updated}]
                 ELSE [ret |-> ReturnNone, db |-> (db \ {user}) \cup {updated}]

\* DB.update_user(user_id, **kwargs)
update_user(db, user_id, kwargs) ==
    LET found == find_user_by(db, [k \in {"id"} |-> user_id])
    IN  IF found.exc # ""
        THEN [ret |-> found, db |-> db]
        ELSE IF \E key \in DOMAIN kwargs : key \notin Columns
        THEN [ret |-> Raise("ValueError", "is not a valid attribute name"), db |-> db]
        ELSE LET user == found.val
                 updated == [c \in Columns |->
                                IF c \in DOMAIN kwargs THEN kwargs[c] ELSE user[c]]
             IN  IF \E o \in db \ {user} : o.id = updated.id
                 THEN [ret |-> Raise("IntegrityError", "UNIQUE constraint failed: users.id"),
                       db |-> db]
                 ELSE [ret |-> ReturnNone, db |-> (db \ {user}) \cup {updated}]

----------------------------------------------------------------------------
(* auth.py: Auth *)

\* register_user that looks the user up by email and password hash together
register_user_LookupBoth(db, email, password, salt) ==
    LET found == find_user_by(db, [k \in {"email", "hashed_password"} |->
                                     IF k = "email" THEN email
                                     ELSE hash_password(password, salt)])
    IN  IF found.exc = "NoResultFound"
        THEN add_user(db, email, hash_password(password, salt))
        ELSE IF found.exc # ""
        THEN [ret |-> found, db |-> db]
        ELSE [ret |-> Raise("ValueError", "already exists"), db |-> db]

\* register_user without the lookup: the row is added whatever is stored
register_user_NoLookup(db, email, password, salt) ==
    add_user(db, email, hash_password(password, salt))

\* Auth.register_user
register_user(db, email, password, salt) ==
    LET found == find_user_by(db, [k \in {"email"} |-> email])
    IN  IF found.exc = "NoResultFound"
        THEN add_user(db, email, hash_password(password, salt))
        ELSE IF found.exc # ""
        THEN [ret |-> found, db |-> db]
        ELSE [ret |-> Raise("ValueError", "already exists"), db |-> db]

\* valid_login that lets NoResultFound escape
valid_login_NoCatch(db, email, password) ==
    LET found == find_user_by(db, [k \in {"email"} |-> email])
    IN  IF found.exc # ""
        THEN [ret |-> found, db |-> db]
        ELSE [ret |-> Return(checkpw(password, found.val.hashed_password)), db |-> db]

\* Auth.valid_login
valid_login(db, email, password) ==
    LET found == find_user_by(db, [k \in {"email"} |-> email])
    IN  IF found.exc = "NoResultFound"
        THEN [ret |-> Return(FALSE), db |-> db]
        ELSE IF found.exc # ""
        THEN [ret |-> found, db |-> db]
        ELSE IF checkpw(password, found.val.hashed_password)
        THEN [ret |-> Return(TRUE), db |-> db]
        ELSE [ret |-> Return(FALSE), db |-> db]

\* create_session that lets NoResultFound escape
create_session_NoCatch(db, email, uuid) ==
    LET found == find_user_by(db, [k \in {"email"} |-> email])
    IN  IF found.exc # ""
        THEN [ret |-> found, db |-> db]
        ELSE LET upd == update_user(db, found.val.id, [k \in {"session_id"} |-> uuid])
             IN  IF upd.ret.exc # "" THEN upd
                 ELSE [ret |-> Return(uuid), db |-> upd.db]

\* Auth.create_session, with the value uuid4 yields
create_session(db, email, uuid) ==
    LET found == find_user_by(db, [k \in {"email"} |-> email])
    IN  IF found.exc = "NoResultFound"
        THEN [ret |-> ReturnNone, db |-> db]
        ELSE IF found.exc # ""
        THEN [ret |-> found, db |-> db]
        ELSE LET upd == update_user(db, found.val.id, [k \in {"session_id"} |-> uuid])
             IN  IF upd.ret.exc # "" THEN upd
                 ELSE [ret |-> Return(uuid), db |-> upd.db]

\* get_user_from_session_id without the test for None
get_user_from_session_id_NoGuard(db, session_id) ==
    LET found == find_user_by(db, [k \in {"session_id"} |-> session_id])
    IN  IF found.exc = "NoResultFound"
        THEN [ret |-> ReturnNone, db |-> db]
        ELSE [ret |-> found, db |-> db]

\* Auth.get_user_from_session_id
get_user_from_session_id(db, session_id) ==
    IF session_id = None
    THEN [ret |-> ReturnNone, db |-> db]
    ELSE LET found == find_user_by(db, [k \in {"session_id"} |-> session_id])
         IN  IF found.exc = "NoResultFound"
             THEN [ret |-> ReturnNone, db |-> db]
             ELSE [ret |-> found, db |-> db]

\* destroy_session that deletes the user's row instead of clearing the session
destroy_session_DeleteRow(db, user_id) ==
    LET found == find_user_by(db, [k \in {"id"} |-> user_id])
    IN  IF found.exc = "NoResultFound"
        THEN [ret |-> ReturnNone, db |-> db]
        ELSE IF found.exc # ""
        THEN [ret |-> found, db |-> db]
        ELSE [ret |-> ReturnNone, db |-> db \ {found.val}]

\* destroy_session that finds the user and returns without the update
destroy_session_NoUpdate(db, user_id) ==
    [ret |-> ReturnNone, db |-> db]

\* Auth.destroy_session
destroy_session(db, user_id) ==
    LET found == find_user_by(db, [k \in {"id"} |-> user_id])
    IN  IF found.exc = "NoResultFound"
        THEN [ret |-> ReturnNone, db |-> db]
        ELSE IF found.exc # ""
        THEN [ret |-> found, db |-> db]
        ELSE LET upd == update_user(db, found.val.id, [k \in {"session_id"} |-> None])
             IN  IF upd.ret.exc # "" THEN upd
                 ELSE [ret |-> ReturnNone, db |-> upd.db]

\* get_reset_password_token that hands out the pending token again instead
\* of replacing it
get_reset_password_token_KeepOld(db, email, uuid) ==
    LET found == find_user_by(db, [k \in {"email"} |-> email])
    IN  IF found.exc = "NoResultFound"
        THEN [ret |-> Raise("ValueError", ""), db |-> db]
        ELSE IF found.exc # ""
        THEN [ret |-> found, db |-> db]
        ELSE IF found.val.reset_token # None
        THEN [ret |-> Return(found.val.reset_token), db |-> db]
        ELSE LET upd == update_user(db, found.val.id, [k \in {"reset_token"} |-> uuid])
             IN  IF upd.ret.exc # "" THEN upd
                 ELSE [ret |-> Return(uuid), db |-> upd.db]

\* get_reset_password_token that answers None for an unknown email, as
\* create_session does
get_reset_password_token_ReturnNone(db, email, uuid) ==
    LET found == find_user_by(db, [k \in {"email"} |-> email])
    IN  IF found.exc # ""
        THEN [ret |-> ReturnNone, db |-> db]
        ELSE LET upd == update_user(db, found.val.id, [k \in {"reset_token"} |-> uuid])
             IN  IF upd.ret.exc # "" THEN upd
                 ELSE [ret |-> Return(uuid), db |-> upd.db]

\* Auth.get_reset_password_token, with the value uuid4 yields
get_reset_password_token(db, email, uuid) ==
    LET found == find_user_by(db, [k \in {"email"} |-> email])
    IN  IF found.exc = "NoResultFound"
        THEN [ret |-> Raise("ValueError", ""), db |-> db]
        ELSE IF found.exc # ""
        THEN [ret |-> found, db |-> db]
        ELSE LET upd == update_user(db, found.val.id, [k \in {"reset_token"} |-> uuid])
             IN  IF upd.ret.exc # "" THEN upd
                 ELSE [ret |-> Return(uuid), db |-> upd.db]

\* update_password that also ends the user's session
update_password_ClearSession(db, reset_token, password, salt) ==
    IF reset_token = None \/ password = None
    THEN [ret |-> ReturnNone, db |-> db]
    ELSE LET found == find_user_by(db, [k \in {"reset_token"} |-> reset_token])
         IN  IF found.exc = "NoResultFound"
             THEN [ret |-> Raise("ValueError", ""), db |-> db]
             ELSE IF found.exc # ""
             THEN [ret |-> found, db |-> db]
             ELSE LET upd == update_user(db, found.val.id,
                                 [k \in {"hashed_password", "reset_token", "session_id"} |->
                                    IF k = "hashed_password"
                                    THEN hash_password(password, salt)
                                    ELSE None])
                  IN  IF upd.ret.exc # "" THEN upd
                      ELSE [ret |-> ReturnNone, db |-> upd.db]

\* update_password without the test for None arguments
update_password_NoGuard(db, reset_token, password, salt) ==
    LET found == find_user_by(db, [k \in {"reset_token"} |-> reset_token])
    IN  IF found.exc = "NoResultFound"
        THEN [ret |-> Raise("ValueError", ""), db |-> db]
        ELSE IF found.exc # ""
        THEN [ret |-> found, db |-> db]
        ELSE LET upd == update_user(db, found.val.id,
                            [k \in {"hashed_password", "reset_token"} |->
                               IF k = "hashed_password"
                               THEN hash_password(password, salt)
                               ELSE None])
             IN  IF upd.ret.exc # "" THEN upd
                 ELSE [ret |-> ReturnNone, db |-> upd.db]

\* update_password that stores the new hash and leaves the token in place
update_password_KeepToken(db, reset_token, password, salt) ==
    IF reset_token = None \/ password = None
    THEN [ret |-> ReturnNone, db |-> db]
    ELSE LET found == find_user_by(db, [k \in {"reset_token"} |-> reset_token])
         IN  IF found.exc = "NoResultFound"
             THEN [ret |-> Raise("ValueError", ""), db |-> db]
             ELSE IF found.exc # ""
             THEN [ret |-> found, db |-> db]
             ELSE LET upd == update_user(db, found.val.id,
                                 [k \in {"hashed_password"} |->
                                    hash_password(password, salt)])
                  IN  IF upd.ret.exc # "" THEN upd
                      ELSE [ret |-> ReturnNone, db |-> upd.db]

\* Auth.update_password
update_password(db, reset_token, password, salt) ==
    IF reset_token = None \/ password = None
    THEN [ret |-> ReturnNone, db |-> db]
    ELSE LET found == find_user_by(db, [k \in {"reset_token"} |-> reset_token])
         IN  IF found.exc = "NoResultFound"
             THEN [ret |-> Raise("ValueError", ""), db |-> db]
             ELSE IF found.exc # ""
             THEN [ret |-> found, db |-> db]
             ELSE LET upd == update_user(db, found.val.id,
                                 [k \in {"hashed_password", "reset_token"} |->
                                    IF k = "hashed_password"
                                    THEN hash_password(password, salt)
                                    ELSE None])
                  IN  IF upd.ret.exc # "" THEN upd
                      ELSE [ret |-> ReturnNone, db |-> upd.db]

----------------------------------------------------------------------------
(* auth.py: what each Auth method does after its find_user_by call has
   returned a user (or, for register_user, has raised NoResultFound) *)

\* Auth.register_user, the except branch
register_user_add(db, email, password, salt) ==
    add_user(db, email, hash_password(password, salt))

\* Auth.create_session, from the update_user call on
create_session_update(db, user_id, uuid) ==
    LET upd == update_user(db, user_id, [k \in {"session_id"} |-> uuid])
    IN  IF upd.ret.exc # "" THEN upd
        ELSE [ret |-> Return(uuid), db |-> upd.db]

\* Auth.destroy_session, from the update_user call on
destroy_session_update(db, user_id) ==
    LET upd == update_user(db, user_id, [k \in {"session_id"} |-> None])
    IN  IF upd.ret.exc # "" THEN upd
        ELSE [ret |-> ReturnNone, db |-> upd.db]

\* Auth.get_reset_password_token, from the update_user call on
get_reset_password_token_update(db, user_id, uuid) ==
    LET upd == update_user(db, user_id, [k \in {"reset_token"} |-> uuid])
    IN  IF upd.ret.exc # "" THEN upd
        ELSE [ret |-> Return(uuid), db |-> upd.db]

\* update_password that stores the new hash in one update_user call and
\* leaves the token for another
update_password_update_HashOnly(db, user_id, password, salt) ==
    LET upd == update_user(db, user_id,
                   [k \in {"hashed_password"} |-> hash_password(password, salt)])
    IN  IF upd.ret.exc # "" THEN upd
        ELSE [ret |-> ReturnNone, db |-> upd.db]

\* Auth.update_password, from the update_user call on
update_password_update(db, user_id, password, salt) ==
    LET upd == update_user(db, user_id,
                   [k \in {"hashed_password", "reset_token"} |->
                      IF k = "hashed_password"
                      THEN hash_password(password, salt)
                      ELSE None])
    IN  IF upd.ret.exc # "" THEN upd
        ELSE [ret |-> ReturnNone, db |-> upd.db]

----------------------------------------------------------------------------
(* State *)

VARIABLES
    users,      \* the rows of the users table
    prev,       \* the rows before the last call (history)
    op,         \* the last call: its name and arguments
    ret,        \* what the last call returned or raised
    uuidCount,  \* how many uuid4 values have been drawn
    procs       \* per concurrent caller: the call it is in and its locals

vars == <<users, prev, op, ret, uuidCount, procs>>

\* the callers that run Auth methods concurrently
Procs == {"p1", "p2"}

\* a caller that is in no call and has made none
Idle == [pc |-> "idle", name |-> "", email |-> None, reset_token |-> None,
         password |-> None, user_id |-> 0, uuid |-> None, ret |-> ReturnNone]

\* a fresh Auth(): DB.__init__ drops and recreates the table
Init ==
    /\ users = {}
    /\ prev = {}
    /\ op = [name |-> "init"]
    /\ ret = ReturnNone
    /\ uuidCount = 0
    /\ procs = [p \in Procs |-> Idle]

\* one call: record it, its outcome and the table it started from
Call(o, out) ==
    /\ op' = o
    /\ ret' = out.ret
    /\ users' = out.db
    /\ prev' = users
    /\ UNCHANGED procs

\* the session identifiers and reset tokens a caller may present
TokenArgs == {None, ""} \cup {UuidPool[i] : i \in 1..MaxUuid}

\* the user ids a caller may present
IdArgs == 1..(MaxId(users) + 1)

----------------------------------------------------------------------------
(* Actions of the AuthService *)

RegisterUser ==
    \E email \in Emails, password \in Passwords, salt \in Salts :
        /\ Call([name |-> "register_user", email |-> email, password |-> password],
                register_user(users, email, password, salt))
        /\ UNCHANGED uuidCount

ValidLogin ==
    \E email \in Emails, password \in Passwords :
        /\ Call([name |-> "valid_login", email |-> email, password |-> password],
                valid_login(users, email, password))
        /\ UNCHANGED uuidCount

CreateSession ==
    \E email \in Emails :
        /\ uuidCount < MaxUuid
        /\ Call([name |-> "create_session", email |-> email],
                create_session(users, email, generate_uuid(uuidCount + 1)))
        /\ uuidCount' = IF find_user_by(users, [k \in {"email"} |-> email]).exc = ""
                        THEN uuidCount + 1 ELSE uuidCount

GetUserFromSessionId ==
    \E session_id \in TokenArgs :
        /\ Call([name |-> "get_user_from_session_id", session_id |-> session_id],
                get_user_from_session_id(users, session_id))
        /\ UNCHANGED uuidCount

DestroySession ==
    \E user_id \in IdArgs :
        /\ Call([name |-> "destroy_session", user_id |-> user_id],
                destroy_session(users, user_id))
        /\ UNCHANGED uuidCount

GetResetPasswordToken ==
    \E email \in Emails :
        /\ uuidCount < MaxUuid
        /\ Call([name |-> "get_reset_password_token", email |-> email],
                get_reset_password_token(users, email, generate_uuid(uuidCount + 1)))
        /\ uuidCount' = IF find_user_by(users, [k \in {"email"} |-> email]).exc = ""
                        THEN uuidCount + 1 ELSE uuidCount

UpdatePassword ==
    \E reset_token \in TokenArgs, password \in Passwords \cup {None}, salt \in Salts :
        /\ Call([name |-> "update_password", reset_token |-> reset_token,
                 password |-> password],
                update_password(users, reset_token, password, salt))
        /\ UNCHANGED uuidCount

Next ==
    \/ RegisterUser
    \/ ValidLogin
    \/ CreateSession
    \/ GetUserFromSessionId
    \/ DestroySession
    \/ GetResetPasswordToken
    \/ UpdatePassword

Spec == Init /\ [][Next]_vars

----------------------------------------------------------------------------
(* Direct calls of the UserStore (DB), with arbitrary keyword arguments *)

\* the keywords direct calls are made with: the primary key, a NOT NULL
\* column, a nullable column, and a keyword that is no column
Keywords == {"id", "email", "session_id", Bogus}

\* the values a caller may pass for a keyword
ValuesOf(key) ==
    CASE key = "id" -> 1..(MaxUsers + 1)
      [] key = "email" -> Emails
      [] key = "session_id" -> {None, "u1"}
      [] OTHER -> {1}

\* the keyword mappings with exactly the keywords keys
RECURSIVE KwargsOver(_)
KwargsOver(keys) ==
    IF keys = {} THEN {<<>>}
    ELSE LET key == CHOOSE k \in keys : TRUE
         IN  {(key :> v) @@ kw : v \in ValuesOf(key), kw \in KwargsOver(keys \ {key})}

AddUser ==
    \E email \in Emails, hashed_password \in {hashpw("pw1", "salt1")} :
        /\ Cardinality(users) < MaxUsers
        /\ Call([name |-> "add_user", email |-> email,
                 hashed_password |-> hashed_password],
                add_user(users, email, hashed_password))
        /\ UNCHANGED uuidCount

FindUserBy ==
    \E keys \in SUBSET Keywords :
        /\ Cardinality(keys) <= MaxKwargs
        /\ \E kwargs \in KwargsOver(keys) :
              Call([name |-> "find_user_by", kwargs |-> kwargs],
                   [ret |-> find_user_by(users, kwargs), db |-> users])
        /\ UNCHANGED uuidCount

UpdateUser ==
    \E user_id \in IdArgs, keys \in SUBSET Keywords :
        /\ Cardinality(keys) <= MaxKwargs
        /\ \E kwargs \in KwargsOver(keys) :
              Call([name |-> "update_user", user_id |-> user_id, kwargs |-> kwargs],
                   update_user(users, user_id, kwargs))
        /\ UNCHANGED uuidCount

NextStore ==
    \/ AddUser
    \/ FindUserBy
    \/ UpdateUser

SpecStore == Init /\ [][NextStore]_vars

----------------------------------------------------------------------------
(* Concurrent callers of the Auth methods, interleaved at the UserStore
   calls: the first step of a call is its find_user_by, the second step its
   add_user or update_user.  Nothing in auth.py or db.py holds a lock
   between the two. *)

\* the inputs of the concurrent callers: one account, the passwords, and the
\* identifiers drawn so far
ConcEmails == {"a@x.com"}

ConcTokenArgs == {UuidPool[i] : i \in 1..uuidCount}

\* a step of caller p: record it, and the table it started from
Step(p, name, step, password, local, db) ==
    /\ procs' = [procs EXCEPT ![p] = local]
    /\ users' = db
    /\ prev' = users
    /\ op' = [name |-> name, step |-> step, proc |-> p, password |-> password]
    /\ ret' = local.ret

\* what a caller keeps of a call that is over: its name, the email or token
\* it was made with, and its outcome
Over(local, result) ==
    [Idle EXCEPT !.name = local.name, !.email = local.email,
                 !.reset_token = local.reset_token, !.ret = result]

\* caller p gets out of the call at its first step
Out(p, name, local, result) ==
    Step(p, name, "find", local.password, Over([local EXCEPT !.name = name], result),
         users)

\* caller p goes on to the second step
On(p, name, local) ==
    Step(p, name, "find", local.password,
         [local EXCEPT !.pc = "found", !.name = name], users)

\* caller p ends the call with the outcome of its second step
End(p, out) ==
    Step(p, procs[p].name, "store", procs[p].password, Over(procs[p], out.ret), out.db)

ConcRegisterFind(p) ==
    \E email \in ConcEmails, password \in Passwords :
        LET found == find_user_by(users, [k \in {"email"} |-> email])
            local == [Idle EXCEPT !.email = email, !.password = password]
        IN  /\ procs[p].pc = "idle"
            /\ IF found.exc = "NoResultFound"
               THEN On(p, "register_user", local)
               ELSE IF found.exc # ""
               THEN Out(p, "register_user", local, found)
               ELSE Out(p, "register_user", local, Raise("ValueError", "already exists"))
            /\ UNCHANGED uuidCount

ConcRegisterAdd(p) ==
    \E salt \in Salts :
        /\ procs[p].pc = "found"
        /\ procs[p].name = "register_user"
        /\ End(p, register_user_add(users, procs[p].email, procs[p].password, salt))
        /\ UNCHANGED uuidCount

ConcCreateSessionFind(p) ==
    \E email \in ConcEmails :
        LET found == find_user_by(users, [k \in {"email"} |-> email])
            local == [Idle EXCEPT !.email = email]
        IN  /\ procs[p].pc = "idle"
            /\ uuidCount < MaxUuid
            /\ IF found.exc = "NoResultFound"
               THEN Out(p, "create_session", local, ReturnNone) /\ UNCHANGED uuidCount
               ELSE IF found.exc # ""
               THEN Out(p, "create_session", local, found) /\ UNCHANGED uuidCount
               ELSE /\ On(p, "create_session",
                          [local EXCEPT !.user_id = found.val.id,
                                        !.uuid = generate_uuid(uuidCount + 1)])
                    /\ uuidCount' = uuidCount + 1

ConcCreateSessionUpdate(p) ==
    /\ procs[p].pc = "found"
    /\ procs[p].name = "create_session"
    /\ End(p, create_session_update(users, procs[p].user_id, procs[p].uuid))
    /\ UNCHANGED uuidCount

ConcDestroySessionFind(p) ==
    \E user_id \in {u.id : u \in users} :
        LET found == find_user_by(users, [k \in {"id"} |-> user_id])
            local == [Idle EXCEPT !.user_id = user_id]
        IN  /\ procs[p].pc = "idle"
            /\ IF found.exc = "NoResultFound"
               THEN Out(p, "destroy_session", local, ReturnNone)
               ELSE IF found.exc # ""
               THEN Out(p, "destroy_session", local, found)
               ELSE On(p, "destroy_session", [local EXCEPT !.user_id = found.val.id])
            /\ UNCHANGED uuidCount

ConcDestroySessionUpdate(p) ==
    /\ procs[p].pc = "found"
    /\ procs[p].name = "destroy_session"
    /\ End(p, destroy_session_update(users, procs[p].user_id))
    /\ UNCHANGED uuidCount

ConcGetResetPasswordTokenFind(p) ==
    \E email \in ConcEmails :
        LET found == find_user_by(users, [k \in {"email"} |-> email])
            local == [Idle EXCEPT !.email = email]
        IN  /\ procs[p].pc = "idle"
            /\ uuidCount < MaxUuid
            /\ IF found.exc = "NoResultFound"
               THEN Out(p, "get_reset_password_token", local, Raise("ValueError", ""))
                    /\ UNCHANGED uuidCount
               ELSE IF found.exc # ""
               THEN Out(p, "get_reset_password_token", local, found)
                    /\ UNCHANGED uuidCount
               ELSE /\ On(p, "get_reset_password_token",
                          [local EXCEPT !.user_id = found.val.id,
                                        !.uuid = generate_uuid(uuidCount + 1)])
                    /\ uuidCount' = uuidCount + 1

ConcGetResetPasswordTokenUpdate(p) ==
    /\ procs[p].pc = "found"
    /\ procs[p].name = "get_reset_password_token"
    /\ End(p, get_reset_password_token_update(users, procs[p].user_id, procs[p].uuid))
    /\ UNCHANGED uuidCount

ConcUpdatePasswordFind(p) ==
    \E reset_token \in ConcTokenArgs, password \in Passwords :
        LET found == find_user_by(users, [k \in {"reset_token"} |-> reset_token])
            local == [Idle EXCEPT !.reset_token = reset_token, !.password = password]
        IN  /\ procs[p].pc = "idle"
            /\ IF reset_token = None \/ password = None
               THEN Out(p, "update_password", local, ReturnNone)
               ELSE IF found.exc = "NoResultFound"
               THEN Out(p, "update_password", local, Raise("ValueError", ""))
               ELSE IF found.exc # ""
               THEN Out(p, "update_password", local, found)
               ELSE On(p, "update_password", [local EXCEPT !.user_id = found.val.id])
            /\ UNCHANGED uuidCount

ConcUpdatePasswordUpdate(p) ==
    \E salt \in Salts :
        /\ procs[p].pc = "found"
        /\ procs[p].name = "update_password"
        /\ End(p, update_password_update(users, procs[p].user_id, procs[p].password, salt))
        /\ UNCHANGED uuidCount

NextConc ==
    \E p \in Procs :
        \/ ConcRegisterFind(p)
        \/ ConcRegisterAdd(p)
        \/ ConcCreateSessionFind(p)
        \/ ConcCreateSessionUpdate(p)
        \/ ConcDestroySessionFind(p)
        \/ ConcDestroySessionUpdate(p)
        \/ ConcGetResetPasswordTokenFind(p)
        \/ ConcGetResetPasswordTokenUpdate(p)
        \/ ConcUpdatePasswordFind(p)
        \/ ConcUpdatePasswordUpdate(p)

SpecConc == Init /\ [][NextConc]_vars

----------------------------------------------------------------------------
(* Properties *)

\* the rows of db with the given email
WithEmail(db, email) == {u \in db : u.email = email}

\* the password a stored hash was computed from
PasswordOf(hashed) == hashed[2]

\* C1: register_user with an email no row has, and any password, returns
\* the new user, and valid_login with the same email and password on the
\* table it leaves returns True.
C1_RegisterThenLogin ==
    (op.name = "register_user" /\ WithEmail(prev, op.email) = {})
        => /\ ret.exc = ""
           /\ ret.val \in users \ prev
           /\ ret.val.email = op.email
           /\ valid_login(users, op.email, op.password).ret = Return(TRUE)

\* a registration with the second salt that succeeded, with a usable login
C1_Witness ==
    /\ op.name = "register_user"
    /\ WithEmail(prev, op.email) = {}
    /\ prev # {}
    /\ ret.exc = ""
    /\ ret.val.hashed_password[1] = "salt2"
    /\ valid_login(users, op.email, op.password).ret = Return(TRUE)

\* C2: register_user with an email a row already has raises ValueError
\* (AlreadyExists), adds no row and leaves every field of every row as it was.
C2_DuplicateRegisterRejected ==
    (op.name = "register_user" /\ WithEmail(prev, op.email) # {})
        => /\ ret.exc = "ValueError"
           /\ users = prev

\* a rejected registration for a user with a session or a reset token, with
\* a password other than the stored one
C2_Witness ==
    /\ op.name = "register_user"
    /\ ret.exc = "ValueError"
    /\ \E u \in WithEmail(prev, op.email) :
          /\ u.session_id # None \/ u.reset_token # None
          /\ PasswordOf(u.hashed_password) # op.password

\* C3: valid_login never raises and changes no row; it returns False when
\* no row has the email, False when the password differs from the one the
\* stored hash was computed from, and True when it is that password.
C3_ValidLogin ==
    op.name = "valid_login"
        => /\ ret.exc = ""
           /\ users = prev
           /\ ret.val = (\E u \in WithEmail(users, op.email) :
                            PasswordOf(u.hashed_password) = op.password)

\* a login refused for an existing user with a wrong password, and one
\* refused for an email nobody has while the table is not empty
C3_Witness ==
    /\ op.name = "valid_login"
    /\ ret = Return(FALSE)
    /\ users # {}
    /\ \/ \E u \in WithEmail(users, op.email) :
             PasswordOf(u.hashed_password) # op.password
       \/ WithEmail(users, op.email) = {}

\* the rows of db with the given id
WithId(db, id) == {u \in db : u.id = id}

\* C4: create_session for an existing user returns a non-empty identifier s
\* and get_user_from_session_id(s) then returns that user; after
\* destroy_session with that user's id the user's session_id is None and
\* get_user_from_session_id with the old identifier returns None.
C4_SessionLifecycle ==
    /\ (op.name = "create_session" /\ WithEmail(prev, op.email) # {})
          => /\ ret.exc = ""
             /\ ~ret.none
             /\ ret.val \notin {None, ""}
             /\ LET got == get_user_from_session_id(users, ret.val).ret
                IN  /\ got.exc = ""
                    /\ ~got.none
                    /\ got.val \in users
                    /\ got.val.email = op.email
                    /\ \E u \in WithEmail(prev, op.email) : got.val.id = u.id
    /\ (op.name = "destroy_session" /\ WithId(prev, op.user_id) # {})
          => /\ ret = ReturnNone
             /\ \A u \in WithId(users, op.user_id) : u.session_id = None
             /\ WithId(users, op.user_id) # {}
             /\ \A u \in WithId(prev, op.user_id) :
                   get_user_from_session_id(users, u.session_id).ret = ReturnNone

\* a destroy_session for a user who had a session, next to a user who has one
C4_Witness ==
    /\ op.name = "destroy_session"
    /\ \E u \in WithId(prev, op.user_id) : u.session_id # None
    /\ \E o \in users : o.session_id # None

\* C5: get_reset_password_token for an existing user returns a token t with
\* which update_password(t, new) succeeds; after it valid_login(email, new)
\* is True, valid_login(email, old) is False for every old # new, and a
\* second update_password with t raises ValueError (NotFound) and changes
\* nothing.
ResetDone(db, email, token, new) ==
    /\ valid_login(db, email, new).ret = Return(TRUE)
    /\ \A old \in Passwords \ {new} : valid_login(db, email, old).ret = Return(FALSE)
    /\ \A password \in Passwords, salt \in Salts :
          update_password(db, token, password, salt)
             = [ret |-> Raise("ValueError", ""), db |-> db]

C5_ResetFlow ==
    /\ (op.name = "get_reset_password_token" /\ WithEmail(prev, op.email) # {})
          => /\ ret.exc = ""
             /\ ~ret.none
             /\ \A new \in Passwords, salt \in Salts :
                   LET upd == update_password(users, ret.val, new, salt)
                   IN  /\ upd.ret = ReturnNone
                       /\ ResetDone(upd.db, op.email, ret.val, new)
    /\ (/\ op.name = "update_password"
        /\ op.reset_token # None
        /\ op.password # None
        /\ \E u \in prev : u.reset_token = op.reset_token)
          => /\ ret = ReturnNone
             /\ \A u \in prev : u.reset_token = op.reset_token
                   => ResetDone(users, u.email, op.reset_token, op.password)

\* a password changed to a different one with a token, next to another user
C5_Witness ==
    /\ op.name = "update_password"
    /\ ret = ReturnNone
    /\ op.reset_token # None
    /\ op.password # None
    /\ Cardinality(users) > 1
    /\ \E u \in prev : /\ u.reset_token = op.reset_token
                       /\ PasswordOf(u.hashed_password) # op.password

\* C6: find_user_by with no keyword raises the "no search criteria"
\* InvalidRequestError (InvalidCriteria), and find_user_by with a keyword
\* that is no column raises the "not a valid search criterion"
\* InvalidRequestError (InvalidField), whatever the table holds and whatever
\* the other keywords are: never NoResultFound, and the table is unchanged.
C6_FindByValidation ==
    op.name = "find_user_by"
        => /\ users = prev
           /\ DOMAIN op.kwargs = {}
                 => ret = Raise("InvalidRequestError", "No search criteria specified")
           /\ Bogus \in DOMAIN op.kwargs
                 => ret = Raise("InvalidRequestError", "is not a valid search criterion")
           /\ ret.exc = "InvalidRequestError"
                 <=> (DOMAIN op.kwargs = {} \/ Bogus \in DOMAIN op.kwargs)

\* a lookup rejected for an unknown keyword, whose other keyword matches no
\* row of a table that is not empty
C6_Witness ==
    /\ op.name = "find_user_by"
    /\ ret.exc = "InvalidRequestError"
    /\ users # {}
    /\ Bogus \in DOMAIN op.kwargs
    /\ "email" \in DOMAIN op.kwargs
    /\ WithEmail(users, op.kwargs["email"]) = {}

\* C7 as stated: update_password returns None and changes no row whenever
\* the token or the password is None or the empty string.
C7_NoOpOnAbsentOrEmpty ==
    (/\ op.name = "update_password"
     /\ op.reset_token \in {None, ""} \/ op.password \in {None, ""})
        => /\ ret = ReturnNone
           /\ users = prev

\* C7 (amended): update_password returns None and changes no row whenever
\* the token or the password is None, so it never matches the rows whose
\* reset_token is NULL.  The empty string is not absent: an empty token is
\* looked up like any token (ValueError when no row holds it, nothing
\* changed), and an empty password given with a held token is hashed and
\* stored.
C7_NoOpOnNone ==
    op.name = "update_password"
        => /\ (op.reset_token = None \/ op.password = None)
                 => /\ ret = ReturnNone
                    /\ users = prev
           /\ (/\ op.reset_token = ""
               /\ op.password # None
               /\ \A u \in prev : u.reset_token # "")
                 => /\ ret = Raise("ValueError", "")
                    /\ users = prev
           /\ (/\ op.password = ""
               /\ op.reset_token # None
               /\ \E u \in prev : u.reset_token = op.reset_token)
                 => /\ ret = ReturnNone
                    /\ \A u \in prev : u.reset_token = op.reset_token
                          => valid_login(users, u.email, "").ret = Return(TRUE)

\* update_password(None, password) called while a row has no reset token
C7_Witness ==
    /\ op.name = "update_password"
    /\ op.reset_token = None
    /\ op.password \notin {None, ""}
    /\ \E u \in prev : /\ u.reset_token = None
                       /\ PasswordOf(u.hashed_password) # op.password
    /\ ret = ReturnNone

\* the row u after the assignments of kwargs
Assigned(u, kwargs) ==
    [c \in Columns |-> IF c \in DOMAIN kwargs THEN kwargs[c] ELSE u[c]]

\* C8: update_user on an existing row is all-or-nothing.  With a keyword
\* that is no column it raises ValueError (InvalidField) and no field of any
\* row changes, the recognized keywords of the same call included.
\* Otherwise every listed field of the row takes its new value in the one
\* step, the unlisted fields and the other rows keep theirs, and the call
\* returns None; the one exception is a new id that another row already
\* has, where the commit fails and again nothing changes.
C8_UpdateAllOrNothing ==
    (op.name = "update_user" /\ WithId(prev, op.user_id) # {})
        => \A u \in WithId(prev, op.user_id) :
              /\ Bogus \in DOMAIN op.kwargs
                    => /\ ret = Raise("ValueError", "is not a valid attribute name")
                       /\ users = prev
              /\ Bogus \notin DOMAIN op.kwargs
                    => \/ /\ ret = ReturnNone
                          /\ users = (prev \ {u}) \cup {Assigned(u, op.kwargs)}
                          /\ \A o \in prev \ {u} : o.id # Assigned(u, op.kwargs).id
                       \/ /\ ret.exc = "IntegrityError"
                          /\ users = prev
                          /\ \E o \in prev \ {u} : o.id = Assigned(u, op.kwargs).id

\* an update rejected for an unknown keyword given next to a recognized one
\* that would have changed the row
C8_Witness ==
    /\ op.name = "update_user"
    /\ ret.exc = "ValueError"
    /\ \E u \in WithId(prev, op.user_id) :
          \E key \in DOMAIN op.kwargs \cap Columns : u[key] # op.kwargs[key]

\* C9: for a user that does not exist the session operations return None
\* instead of raising and change no row: create_session with an email no
\* row has, get_user_from_session_id with None or an identifier no row has,
\* and destroy_session with an id no row has.
C9_SessionOpsUnknownUser ==
    /\ (op.name = "create_session" /\ WithEmail(prev, op.email) = {})
          => (ret = ReturnNone /\ users = prev)
    /\ (/\ op.name = "get_user_from_session_id"
        /\ op.session_id = None \/ \A u \in prev : u.session_id # op.session_id)
          => (ret = ReturnNone /\ users = prev)
    /\ (op.name = "destroy_session" /\ WithId(prev, op.user_id) = {})
          => (ret = ReturnNone /\ users = prev)

\* a destroy_session with an unknown id while another user has a session
C9_Witness ==
    /\ op.name = "destroy_session"
    /\ WithId(prev, op.user_id) = {}
    /\ ret = ReturnNone
    /\ \E u \in users : u.session_id # None

\* C10: get_reset_password_token with an email no row has, and
\* update_password with a password and a non-empty token no row holds, raise
\* ValueError (NotFound) to the caller and change no row.
C10_ResetOpsUnknownUser ==
    /\ (op.name = "get_reset_password_token" /\ WithEmail(prev, op.email) = {})
          => (ret = Raise("ValueError", "") /\ users = prev)
    /\ (/\ op.name = "update_password"
        /\ op.reset_token \notin {None, ""}
        /\ op.password # None
        /\ \A u \in prev : u.reset_token # op.reset_token)
          => (ret = Raise("ValueError", "") /\ users = prev)

\* an update_password refused for a token nobody holds while a user holds
\* another token
C10_Witness ==
    /\ op.name = "update_password"
    /\ op.reset_token \notin {None, ""}
    /\ op.password # None
    /\ ret.exc = "ValueError"
    /\ \E u \in prev : u.reset_token \notin {None, op.reset_token}

\* C11: after any sequence of Auth calls made one at a time, no two rows
\* have the same email (and no two rows have the same id).
C11_EmailUnique ==
    \A u \in users : \A v \in users :
        (u.email = v.email \/ u.id = v.id) => u = v

\* a registration refused for a taken email while every email is taken
C11_Witness ==
    /\ op.name = "register_user"
    /\ ret.exc = "ValueError"
    /\ {u.email : u \in users} = Emails
    /\ Cardinality(users) = Cardinality(Emails)

\* C12: no two rows hold the same session_id other than None, and
\* get_user_from_session_id(s) returns a row only if that row's current
\* session_id is s: it returns None for s = None and for the empty s, and
\* never a row that has no session.
C12_SessionLookupSound ==
    /\ \A u \in users : \A v \in users :
          (u.session_id # None /\ u.session_id = v.session_id) => u = v
    /\ op.name = "get_user_from_session_id"
          => /\ ret.exc = ""
             /\ users = prev
             /\ op.session_id \in {None, ""} => ret = ReturnNone
             /\ ~ret.none => /\ ret.val \in users
                             /\ ret.val.session_id = op.session_id
                             /\ ret.val.session_id # None

\* a lookup with None while one user has a session and another has none
C12_Witness ==
    /\ op.name = "get_user_from_session_id"
    /\ op.session_id = None
    /\ \E u \in users : u.session_id = None
    /\ \E u \in users : u.session_id # None

\* C13: a create_session for a user who already has a session returns an
\* identifier different from the first and overwrites it: the first
\* identifier resolves to None, the second to the user, and an identifier
\* that was drawn and is no row's current session_id never resolves.
C13_OneSessionPerUser ==
    /\ (op.name = "create_session" /\ ~ret.none /\ ret.exc = "")
          => \A u \in WithEmail(prev, op.email) :
                /\ ret.val # u.session_id
                /\ get_user_from_session_id(users, u.session_id).ret = ReturnNone
                /\ LET got == get_user_from_session_id(users, ret.val).ret
                   IN  /\ ~got.none
                       /\ got.val.id = u.id
                       /\ got.val.session_id = ret.val
    /\ \A i \in 1..uuidCount :
          (\A u \in users : u.session_id # UuidPool[i])
             => get_user_from_session_id(users, UuidPool[i]).ret = ReturnNone

\* a second create_session for a user whose first session was still active
C13_Witness ==
    /\ op.name = "create_session"
    /\ ~ret.none
    /\ \E u \in WithEmail(prev, op.email) :
          /\ u.session_id # None
          /\ u.session_id # ret.val
    /\ Cardinality(users) > 1

\* C14: a get_reset_password_token for a user who already has a token
\* replaces it: update_password with the first token raises ValueError
\* (NotFound) and changes nothing, while with the second token it succeeds
\* and sets the password.
C14_OneResetTokenPerUser ==
    (op.name = "get_reset_password_token" /\ ret.exc = "")
        => \A u \in WithEmail(prev, op.email) :
              /\ ~ret.none
              /\ ret.val # u.reset_token
              /\ \A v \in WithEmail(users, op.email) : v.reset_token = ret.val
              /\ \A password \in Passwords, salt \in Salts :
                    /\ u.reset_token # None
                          => update_password(users, u.reset_token, password, salt)
                                = [ret |-> Raise("ValueError", ""), db |-> users]
                    /\ LET upd == update_password(users, ret.val, password, salt)
                       IN  /\ upd.ret = ReturnNone
                           /\ valid_login(upd.db, op.email, password).ret = Return(TRUE)

\* a second get_reset_password_token for a user whose first token was pending
C14_Witness ==
    /\ op.name = "get_reset_password_token"
    /\ ret.exc = ""
    /\ \E u \in WithEmail(prev, op.email) :
          /\ u.reset_token # None
          /\ u.reset_token # ret.val

\* the rows of db that differ from the row of the same id in old, or have none
Changed(old, db) == {u \in db : u \notin old}

\* u and v agree on every column outside cols
SameExcept(u, v, cols) == \A c \in Columns \ cols : u[c] = v[c]

\* the call changed at most one row, kept its id, and changed at most the
\* columns cols of it
OnlyColumns(cols) ==
    /\ Cardinality(users) = Cardinality(prev)
    /\ Cardinality(Changed(prev, users)) <= 1
    /\ \A v \in Changed(prev, users) :
          \E u \in Changed(users, prev) : u.id = v.id /\ SameExcept(u, v, cols)

\* C17: create_session and destroy_session change only the session_id of
\* the target user, get_reset_password_token only its reset_token,
\* update_password only its hashed_password and reset_token (a session_id
\* survives the password reset); every other row is unchanged.
C17_Frames ==
    /\ op.name = "create_session"
          => /\ OnlyColumns({"session_id"})
             /\ \A v \in Changed(prev, users) : v.email = op.email
    /\ op.name = "destroy_session"
          => /\ OnlyColumns({"session_id"})
             /\ \A v \in Changed(prev, users) : v.id = op.user_id
    /\ op.name = "get_reset_password_token"
          => /\ OnlyColumns({"reset_token"})
             /\ \A v \in Changed(prev, users) : v.email = op.email
    /\ op.name = "update_password"
          => /\ OnlyColumns({"hashed_password", "reset_token"})
             /\ \A u \in Changed(users, prev) : u.reset_token = op.reset_token

\* a password reset of a user with an active session, next to another user
C17_Witness ==
    /\ op.name = "update_password"
    /\ \E v \in Changed(prev, users) :
          /\ v.session_id # None
          /\ v.reset_token = None
    /\ users \cap prev # {}

\* C18: across Auth calls the rows only grow in number: a row appears only
\* through a register_user that returns it, no row is removed, and the id
\* and email of a row never change.
C18_RecordsOnlyGrow ==
    /\ \A u \in prev : \E v \in users : v.id = u.id /\ v.email = u.email
    /\ Cardinality(users) >= Cardinality(prev)
    /\ Cardinality(users) > Cardinality(prev)
          => /\ op.name = "register_user"
             /\ ret.exc = ""
             /\ users = prev \cup {ret.val}
    /\ Cardinality({u.id : u \in users}) = Cardinality(users)

\* a second user registered while the first has a session and a token
C18_Witness ==
    /\ op.name = "register_user"
    /\ ret.exc = ""
    /\ Cardinality(users) = 2
    /\ \E u \in prev : u.session_id # None /\ u.reset_token # None

\* C19: no update_user call, whatever recognized keywords it carries,
\* changes the id of a row or makes two rows share an id.
C19_IdImmutable ==
    op.name = "update_user"
        => /\ {u.id : u \in users} = {u.id : u \in prev}
           /\ Cardinality({u.id : u \in users}) = Cardinality(users)

\* the last step was the update_user call of an update_password
PasswordStored == op.name = "update_password" /\ op.step = "store"

\* C15: with create_session, destroy_session, get_reset_password_token and
\* update_password calls interleaved at their UserStore calls, hashed_password
\* and reset_token change together: no step leaves a row with a new
\* hashed_password and its reset_token still set, or with its reset_token
\* cleared and the hashed_password of before; the only step that changes
\* either is the one update_user call of update_password, which stores the
\* hash of its password and None as the token.
C15_PasswordAndTokenTogether ==
    /\ \A v \in users : \A u \in prev :
          u.id = v.id
             => /\ u.hashed_password # v.hashed_password
                      => /\ PasswordStored
                         /\ v.reset_token = None
                         /\ checkpw(op.password, v.hashed_password)
                /\ (u.reset_token # None /\ v.reset_token = None)
                      => /\ PasswordStored
                         /\ checkpw(op.password, v.hashed_password)
    /\ (PasswordStored /\ ret = ReturnNone)
          => \E v \in users : \E u \in prev :
                /\ u.id = v.id
                /\ v.reset_token = None
                /\ checkpw(op.password, v.hashed_password)
                /\ v.session_id = u.session_id

\* an update_password that stored a different password for a user with a
\* session while the other caller is between the two steps of a
\* create_session or destroy_session
C15_Witness ==
    /\ PasswordStored
    /\ ret = ReturnNone
    /\ \E v \in users : \E u \in prev :
          /\ u.id = v.id
          /\ u.reset_token # None
          /\ u.hashed_password # v.hashed_password
          /\ v.session_id # None
    /\ \E q \in Procs : /\ procs[q].pc = "found"
                        /\ procs[q].name \in {"create_session", "destroy_session"}

\* C16: at most one update_password call carrying a given reset token
\* succeeds, also when two such calls interleave between their find_user_by
\* and their update_user.
C16_TokenUsedOnce ==
    \A p \in Procs : \A q \in Procs \ {p} :
        ~ /\ procs[p].pc = "idle" /\ procs[q].pc = "idle"
          /\ procs[p].name = "update_password" /\ procs[q].name = "update_password"
          /\ procs[p].reset_token # None
          /\ procs[p].reset_token = procs[q].reset_token
          /\ procs[p].ret = ReturnNone /\ procs[q].ret = ReturnNone

\* C20: when two register_user calls for the same unregistered email
\* interleave between their find_user_by and their add_user, at most one
\* creates a row and the other raises ValueError (AlreadyExists): no two
\* rows have the same email.
C20_ConcurrentRegisterUnique ==
    /\ \A u \in users : \A v \in users : u.email = v.email => u = v
    /\ \A p \in Procs : \A q \in Procs \ {p} :
          ~ /\ procs[p].pc = "idle" /\ procs[q].pc = "idle"
            /\ procs[p].name = "register_user" /\ procs[q].name = "register_user"
            /\ procs[p].email = procs[q].email
            /\ procs[p].ret.exc = "" /\ procs[q].ret.exc = ""

====
